---- MODULE Spec2Model ----
(***************************************************************************)
(* Model of the odin core of valheim-docker: the notification dispatcher   *)
(* (src/notifications/mod.rs, src/notifications/telegram.rs), the start    *)
(* and stop flows of main (src/main.rs) and the BepInEx launch environment *)
(* (src/mods/bepinex.rs).                                                  *)
(*                                                                         *)
(* A Rust String is modelled as a sequence of one-character strings, so    *)
(* that trimming, prefix tests, concatenation and case conversion are      *)
(* computed character by character, as the code computes them.             *)
(***************************************************************************)
EXTENDS Integers, Sequences, FiniteSets, TLC

VARIABLES
  env,        \* process environment: a function from the names that are set to their values
  pc,         \* position of main / of the caller
  subcommand, \* the subcommand main was started with
  event,      \* the NotificationEvent being dispatched
  requests,   \* HTTP requests issued so far (url, provider, body), in order
  logs,       \* log records written so far
  looked,     \* names of the override variables looked up with env::var, in order
  ran,        \* lifecycle commands executed so far
  now,        \* the local clock read by create_notification_message
  fs,         \* the paths that exist on the filesystem
  benv,       \* the BepInExEnvironment handed to invoke
  installed,  \* result of is_bepinex_installed
  childEnv,   \* bindings applied to the child Command, in order
  spawned     \* result of Command::spawn as returned by invoke

vars == <<env, pc, subcommand, event, requests, logs, looked, ran, now, fs, benv,
          installed, childEnv, spawned>>

-----------------------------------------------------------------------------
(* Characters and strings *)

Lowers == <<"a", "b", "c", "d", "e", "f", "g", "h", "i", "j", "k", "l", "m", "n", "o", "p", "q", "r", "s", "t", "u", "v", "w", "x", "y", "z">>
Uppers == <<"A", "B", "C", "D", "E", "F", "G", "H", "I", "J", "K", "L", "M", "N", "O", "P", "Q", "R", "S", "T", "U", "V", "W", "X", "Y", "Z">>
Digits == <<"0", "1", "2", "3", "4", "5", "6", "7", "8", "9">>

Range(s) == {s[i] : i \in DOMAIN s}

LowerSet == Range(Lowers)
UpperSet == Range(Uppers)
DigitSet == Range(Digits)

IsLower(c) == c \in LowerSet
IsUpper(c) == c \in UpperSet
IsAlpha(c) == IsLower(c) \/ IsUpper(c)
IsDigit(c) == c \in DigitSet

UpperOf == [c \in LowerSet |-> Uppers[CHOOSE i \in DOMAIN Lowers : Lowers[i] = c]]
LowerOf == [c \in UpperSet |-> Lowers[CHOOSE i \in DOMAIN Uppers : Uppers[i] = c]]

ToUpperChar(c) == IF IsLower(c) THEN UpperOf[c] ELSE c
ToLowerChar(c) == IF IsUpper(c) THEN LowerOf[c] ELSE c

to_uppercase(s) == [i \in DOMAIN s |-> ToUpperChar(s[i])]
to_lowercase(s) == [i \in DOMAIN s |-> ToLowerChar(s[i])]

Quote == "\""

starts_with(s, prefix) ==
  /\ Len(prefix) <= Len(s)
  /\ SubSeq(s, 1, Len(prefix)) = prefix

RECURSIVE trim_start_matches(_, _)
trim_start_matches(s, c) ==
  IF s # <<>> /\ Head(s) = c THEN trim_start_matches(Tail(s), c) ELSE s

RECURSIVE trim_end_matches(_, _)
trim_end_matches(s, c) ==
  IF s # <<>> /\ s[Len(s)] = c
    THEN trim_end_matches(SubSeq(s, 1, Len(s) - 1), c)
    ELSE s

RECURSIVE replace_char(_, _)
replace_char(s, c) ==
  IF s = <<>> THEN <<>>
  ELSE IF Head(s) = c THEN replace_char(Tail(s), c)
  ELSE <<Head(s)>> \o replace_char(Tail(s), c)

RECURSIVE Join(_, _)
Join(words, sep) ==
  IF words = <<>> THEN <<>>
  ELSE IF Len(words) = 1 THEN words[1]
  ELSE words[1] \o sep \o Join(Tail(words), sep)

-----------------------------------------------------------------------------
(* inflections::case, as used by the dispatcher *)

IsSeparator(c) == c \in {" ", "-", "_"}

RECURSIVE SplitWords(_, _, _)
SplitWords(s, cur, prevLower) ==
  IF s = <<>> THEN (IF cur = <<>> THEN <<>> ELSE <<cur>>)
  ELSE LET c == Head(s) IN
    IF IsSeparator(c)
      THEN (IF cur = <<>> THEN <<>> ELSE <<cur>>) \o SplitWords(Tail(s), <<>>, FALSE)
    ELSE IF IsUpper(c) /\ prevLower
      THEN <<cur>> \o SplitWords(Tail(s), <<c>>, FALSE)
    ELSE SplitWords(Tail(s), Append(cur, c), IsLower(c))

Capitalize(w) ==
  [i \in DOMAIN w |-> IF i = 1 THEN ToUpperChar(w[i]) ELSE ToLowerChar(w[i])]

to_constant_case(s) ==
  LET words == SplitWords(s, <<>>, FALSE)
  IN  Join([i \in DOMAIN words |-> to_uppercase(words[i])], <<"_">>)

to_title_case(s) ==
  LET words == SplitWords(s, <<>>, FALSE)
  IN  Join([i \in DOMAIN words |-> Capitalize(words[i])], <<" ">>)

-----------------------------------------------------------------------------
(* utils::environment and std::env *)

EnvIsSet(e, name) == name \in DOMAIN e

\* treats a variable set to the empty string as not set
EnvVarOrNonEmpty(e, name, default) ==
  IF EnvIsSet(e, name) /\ e[name] # <<>> THEN e[name] ELSE default

\* env::var(name).unwrap_or(default): the value when the variable is set, also to the
\* empty string
EnvVarOr(e, name, default) == IF EnvIsSet(e, name) THEN e[name] ELSE default

fetch_var(e, name, default) ==
  IF EnvIsSet(e, name) /\ e[name] # <<>> THEN e[name] ELSE default

-----------------------------------------------------------------------------
(* reqwest::Url::parse, as far as is_webhook_enabled depends on it: a URL   *)
(* needs a scheme, and a special scheme needs a non-empty host and a        *)
(* numeric port.                                                            *)

RECURSIVE IndexOfAny(_, _, _)
IndexOfAny(s, cs, i) ==
  IF i > Len(s) THEN 0
  ELSE IF s[i] \in cs THEN i
  ELSE IndexOfAny(s, cs, i + 1)

RECURSIVE SkipSlashes(_)
SkipSlashes(s) ==
  IF s # <<>> /\ Head(s) \in {"/", "\\"} THEN SkipSlashes(Tail(s)) ELSE s

SpecialSchemes == {<<"h", "t", "t", "p">>, <<"h", "t", "t", "p", "s">>, <<"w", "s">>, <<"w", "s", "s">>, <<"f", "t", "p">>}

UrlAuthority(rest) ==
  LET s   == SkipSlashes(rest)
      end == IndexOfAny(s, {"/", "\\", "?", "#"}, 1)
  IN  IF end = 0 THEN s ELSE SubSeq(s, 1, end - 1)

url_parse_is_ok(u) ==
  LET colon == IndexOfAny(u, {":"}, 1) IN
  /\ colon > 1
  /\ IsAlpha(u[1])
  /\ \A i \in 2..(colon - 1) : IsAlpha(u[i]) \/ IsDigit(u[i]) \/ u[i] \in {"+", "-", "."}
  /\ LET scheme == to_lowercase(SubSeq(u, 1, colon - 1))
         auth   == UrlAuthority(SubSeq(u, colon + 1, Len(u)))
         at     == IndexOfAny(auth, {"@"}, 1)
         hostpt == SubSeq(auth, at + 1, Len(auth))
         pcolon == IndexOfAny(hostpt, {":"}, 1)
         host   == IF pcolon = 0 THEN hostpt ELSE SubSeq(hostpt, 1, pcolon - 1)
         port   == IF pcolon = 0 THEN <<>> ELSE SubSeq(hostpt, pcolon + 1, Len(hostpt))
     IN  scheme \in SpecialSchemes =>
           /\ host # <<>>
           /\ \A i \in DOMAIN port : IsDigit(port[i])

-----------------------------------------------------------------------------
(* notifications: names and events *)

WEBHOOK_URL == <<"W", "E", "B", "H", "O", "O", "K", "_", "U", "R", "L">>
TELEGRAM_CHAT_ID == <<"T", "E", "L", "E", "G", "R", "A", "M", "_", "C", "H", "A", "T", "_", "I", "D">>
TELEGRAM_API_BASE == <<"h", "t", "t", "p", "s", ":", "/", "/", "a", "p", "i", ".", "t", "e", "l", "e", "g", "r", "a", "m", ".", "o", "r", "g", "/", "b", "o", "t">>
DISCORD_WEBHOOK_BASE == <<"h", "t", "t", "p", "s", ":", "/", "/", "d", "i", "s", "c", "o", "r", "d", ".", "c", "o", "m", "/", "a", "p", "i", "/", "w", "e", "b", "h", "o", "o", "k", "s">>

Running == <<"R", "u", "n", "n", "i", "n", "g">>
Successful == <<"S", "u", "c", "c", "e", "s", "s", "f", "u", "l">>
Failed == <<"F", "a", "i", "l", "e", "d">>
EventStatus == {Running, Successful, Failed}

Start == <<"S", "t", "a", "r", "t">>
Stop == <<"S", "t", "o", "p">>
Update == <<"U", "p", "d", "a", "t", "e">>
Broadcast == <<"B", "r", "o", "a", "d", "c", "a", "s", "t">>

\* NotificationEvent: Broadcast is a unit variant, the others carry an EventStatus.
\* For Broadcast the status field is the status of its EventType.
NotificationEvent ==
  [kind : {Start, Stop, Update}, status : EventStatus]
    \cup [kind : {Broadcast}, status : EventStatus \cup {<<"T", "r", "i", "g", "g", "e", "r", "e", "d">>}]

\* Display of a NotificationEvent: "Stop Running", "Broadcast"
event_to_string(ev) ==
  IF ev.kind = Broadcast THEN ev.kind ELSE ev.kind \o <<" ">> \o ev.status

to_event_type(ev) == [name |-> ev.kind, status |-> ev.status]

-----------------------------------------------------------------------------
(* notifications/mod.rs *)

\* strips one quote from each end only
fetch_webhook_url_single(e) ==
  LET v == fetch_var(e, WEBHOOK_URL, <<>>)
      a == IF v # <<>> /\ Head(v) = Quote THEN Tail(v) ELSE v
  IN  IF a # <<>> /\ a[Len(a)] = Quote THEN SubSeq(a, 1, Len(a) - 1) ELSE a

fetch_webhook_url(e) ==
  trim_end_matches(trim_start_matches(fetch_var(e, WEBHOOK_URL, <<>>), Quote), Quote)

\* forgets to validate the URL
is_webhook_enabled_unvalidated(e) == fetch_webhook_url(e) # <<>>

is_webhook_enabled(e) ==
  LET url == fetch_webhook_url(e)
  IN  IF url # <<>> THEN url_parse_is_ok(url) ELSE FALSE

\* what is_webhook_enabled writes to the log
WebhookEnabledLogs(e) ==
  LET url == fetch_webhook_url(e)
  IN  IF url # <<>>
        THEN <<[level |-> "debug", msg |-> "url_found"]>>
               \o (IF url_parse_is_ok(url) THEN <<>>
                   ELSE <<[level |-> "warn", msg |-> "url_invalid"]>>)
        ELSE <<>>

\* leaves the status out of the key
parse_webhook_env_var_no_status(event_type) ==
  to_constant_case(<<"W", "E", "B", "H", "O", "O", "K", "_">> \o event_type.name \o <<"_", "M", "E", "S", "S", "A", "G", "E">>)

parse_webhook_env_var(event_type) ==
  IF to_lowercase(event_type.name) = <<"b", "r", "o", "a", "d", "c", "a", "s", "t">>
    THEN to_constant_case(<<"W", "E", "B", "H", "O", "O", "K", "_">> \o event_type.name \o <<"_", "M", "E", "S", "S", "A", "G", "E">>)
    ELSE to_constant_case(
           <<"W", "E", "B", "H", "O", "O", "K", "_">> \o event_type.name \o <<"_">> \o event_type.status \o <<"_", "M", "E", "S", "S", "A", "G", "E">>)

create_notification_message(ev, clock) ==
  [event_type    |-> to_event_type(ev),
   event_message |-> <<"S", "e", "r", "v", "e", "r", " ", "S", "t", "a", "t", "u", "s", ":", " ">> \o to_title_case(event_to_string(ev)),
   timestamp     |-> clock]

\* tests the host only
is_telegram_api_host_only(webhook_url) == starts_with(webhook_url, <<"h", "t", "t", "p", "s", ":", "/", "/", "a", "p", "i", ".", "t", "e", "l", "e", "g", "r", "a", "m", ".", "o", "r", "g">>)

is_telegram_api(webhook_url) == starts_with(webhook_url, TELEGRAM_API_BASE)

is_discord_webhook(webhook_url) == starts_with(webhook_url, DISCORD_WEBHOOK_BASE)

\* also refuses a chat identifier that is set to the empty string
telegram_chat_id_missing_or_empty(e) ==
  ~EnvIsSet(e, TELEGRAM_CHAT_ID) \/ e[TELEGRAM_CHAT_ID] = <<>>

\* env::var("TELEGRAM_CHAT_ID").unwrap() panics
telegram_chat_id_missing(e) == ~EnvIsSet(e, TELEGRAM_CHAT_ID)

\* TelegramAPISendMessageBody::new after env::var("TELEGRAM_CHAT_ID") succeeded
TelegramAPISendMessageBody(e, notification) ==
  [shape   |-> "Telegram",
   chat_id |-> e[TELEGRAM_CHAT_ID],
   text    |-> notification.event_type.name \o <<":", " ">> \o notification.event_message]

DiscordWebHookBody(notification) ==
  [shape |-> "Discord", from |-> notification]

GenericBody(notification) ==
  [shape |-> "Generic", notification |-> notification]

SuccessStatus == {200, 204, 201}

\* outcome: [ok |-> request.send() is Ok, status |-> HTTP status or 0, text_ok |-> body readable]
handle_request(ev, outcome) ==
  IF outcome.ok
    THEN IF ~outcome.text_ok
           THEN [logs |-> <<>>, panicked |-> TRUE]
           ELSE IF outcome.status \in SuccessStatus
             THEN [logs |-> <<[level |-> "info", msg |-> "sent"]>>, panicked |-> FALSE]
             ELSE [logs |-> <<[level |-> "error", msg |-> "request_failed"]>>,
                   panicked |-> FALSE]
    ELSE [logs |-> <<[level |-> "error", msg |-> "webhook_error"]>>, panicked |-> FALSE]

send_custom_notification(e, ev, webhook_url, message, clock, outcome) ==
  LET notification ==
        [create_notification_message(ev, clock) EXCEPT !.event_message = message]
      dbg == <<[level |-> "debug", msg |-> "sending"]>>
  IN  IF ~is_discord_webhook(webhook_url) /\ is_telegram_api(webhook_url)
         /\ telegram_chat_id_missing(e)
        THEN [requests |-> <<>>,
              logs     |-> dbg \o <<[level |-> "info", msg |-> "telegram"]>>,
              panicked |-> TRUE]
        ELSE
          LET body ==
                IF is_discord_webhook(webhook_url) THEN DiscordWebHookBody(notification)
                ELSE IF is_telegram_api(webhook_url)
                  THEN TelegramAPISendMessageBody(e, notification)
                ELSE GenericBody(notification)
              pre ==
                IF is_discord_webhook(webhook_url)
                  THEN <<[level |-> "info", msg |-> "discord"]>>
                ELSE IF is_telegram_api(webhook_url)
                  THEN <<[level |-> "info", msg |-> "telegram"]>>
                ELSE <<[level |-> "debug", msg |-> "payload"]>>
              h == handle_request(ev, outcome)
          IN  [requests |-> <<[url |-> webhook_url, body |-> body]>>,
               logs     |-> dbg \o pre \o h.logs,
               panicked |-> h.panicked]

\* the whole of NotificationEvent::send_notification; each read of the clock advances it
send_notification(e, ev, clock, outcome) ==
  IF is_webhook_enabled(e)
    THEN
      LET created == create_notification_message(ev, clock)
          env_var_name == parse_webhook_env_var(created.event_type)
          notification_message == EnvVarOr(e, env_var_name, created.event_message)
          r == send_custom_notification(
                 e, ev, fetch_webhook_url(e), notification_message, clock + 1, outcome)
      IN  [requests |-> r.requests,
           looked   |-> <<env_var_name>>,
           logs     |-> WebhookEnabledLogs(e)
                          \o <<[level |-> "debug", msg |-> "found"]>> \o r.logs,
           now      |-> clock + 2,
           panicked |-> r.panicked]
    ELSE [requests |-> <<>>,
          looked   |-> <<>>,
          logs     |-> WebhookEnabledLogs(e) \o <<[level |-> "debug", msg |-> "skipping"]>>,
          now      |-> clock,
          panicked |-> FALSE]

-----------------------------------------------------------------------------
(* mods/bepinex.rs *)

DYLD_LIBRARY_PATH_VAR == <<"D", "Y", "L", "D", "_", "L", "I", "B", "R", "A", "R", "Y", "_", "P", "A", "T", "H">>
DYLD_INSERT_LIBRARIES_VAR == <<"D", "Y", "L", "D", "_", "I", "N", "S", "E", "R", "T", "_", "L", "I", "B", "R", "A", "R", "I", "E", "S">>
DOORSTOP_ENABLE_VAR == <<"D", "O", "O", "R", "S", "T", "O", "P", "_", "E", "N", "A", "B", "L", "E">>
DOORSTOP_LIB_VAR == <<"D", "O", "O", "R", "S", "T", "O", "P", "_", "L", "I", "B">>
DOORSTOP_LIBS_VAR == <<"D", "O", "O", "R", "S", "T", "O", "P", "_", "L", "I", "B", "S">>
DOORSTOP_INVOKE_DLL_PATH_VAR == <<"D", "O", "O", "R", "S", "T", "O", "P", "_", "I", "N", "V", "O", "K", "E", "_", "D", "L", "L", "_", "P", "A", "T", "H">>
DOORSTOP_CORLIB_OVERRIDE_PATH_VAR == <<"D", "O", "O", "R", "S", "T", "O", "P", "_", "C", "O", "R", "L", "I", "B", "_", "O", "V", "E", "R", "R", "I", "D", "E", "_", "P", "A", "T", "H">>
LD_PRELOAD_VAR == <<"L", "D", "_", "P", "R", "E", "L", "O", "A", "D">>
LD_LIBRARY_PATH_VAR == <<"L", "D", "_", "L", "I", "B", "R", "A", "R", "Y", "_", "P", "A", "T", "H">>

get_working_dir == <<"/", "d">>

path_exists(files, path) == path \in files

doorstop_lib(e) == fetch_var(e, DOORSTOP_LIB_VAR, <<"l", "i", "b", "d", "o", "o", "r", "s", "t", "o", "p", "_", "x", "6", "4", ".", "s", "o">>)

doorstop_libs(e) ==
  fetch_var(e, DOORSTOP_LIBS_VAR, get_working_dir \o <<"/", "d", "o", "o", "r", "s", "t", "o", "p", "_", "l", "i", "b", "s">>)

doorstop_insert_lib(e) ==
  LET default == doorstop_libs(e) \o <<"/">> \o replace_char(doorstop_lib(e), ":")
  IN  fetch_var(e, DYLD_INSERT_LIBRARIES_VAR, default)

doorstop_invoke_dll(e) ==
  fetch_var(e, DOORSTOP_INVOKE_DLL_PATH_VAR,
            get_working_dir \o <<"/", "B", "e", "p", "I", "n", "E", "x", "/", "c", "o", "r", "e", "/", "B", "e", "p", "I", "n", "E", "x", ".", "P", "r", "e", "l", "o", "a", "d", "e", "r", ".", "d", "l", "l">>)

\* takes the library name as the default of LD_PRELOAD instead of appending it
ld_preload_as_default(e) == fetch_var(e, LD_PRELOAD_VAR, doorstop_lib(e))

ld_preload(e) == fetch_var(e, LD_PRELOAD_VAR, <<>>) \o doorstop_lib(e)

build_environment(e) ==
  [ld_preload |-> ld_preload(e),
   ld_library_path |->
     fetch_var(e, LD_LIBRARY_PATH_VAR, <<".", "/", "l", "i", "n", "u", "x", "6", "4", ":">> \o doorstop_libs(e)),
   doorstop_enable |-> to_uppercase(<<"t", "r", "u", "e">>),
   doorstop_invoke_dll |-> doorstop_invoke_dll(e),
   doorstop_corlib_override_path |->
     fetch_var(e, DOORSTOP_CORLIB_OVERRIDE_PATH_VAR,
               get_working_dir \o <<"/", "u", "n", "s", "t", "r", "i", "p", "p", "e", "d", "_", "c", "o", "r", "l", "i", "b">>),
   dyld_library_path |-> fetch_var(e, DYLD_LIBRARY_PATH_VAR, doorstop_libs(e)),
   dyld_insert_libraries |->
     fetch_var(e, DYLD_INSERT_LIBRARIES_VAR, doorstop_insert_lib(e))]

\* leaves the preload list of the mac loader unchecked
is_bepinex_installed_three(e, files) ==
  LET bepinex_env == build_environment(e)
      checks == <<bepinex_env.doorstop_corlib_override_path,
                  bepinex_env.dyld_library_path,
                  bepinex_env.doorstop_invoke_dll>>
  IN  \A i \in DOMAIN checks : path_exists(files, checks[i]) = TRUE

is_bepinex_installed(e, files) ==
  LET bepinex_env == build_environment(e)
      checks == <<bepinex_env.doorstop_corlib_override_path,
                  bepinex_env.dyld_insert_libraries,
                  bepinex_env.dyld_library_path,
                  bepinex_env.doorstop_invoke_dll>>
  IN  \A i \in DOMAIN checks : path_exists(files, checks[i]) = TRUE

\* emits the value as it is
quoted_not(value) == value

\* format!("\"{}\"", value)
quoted(value) == <<Quote>> \o value \o <<Quote>>

\* the bindings invoke applies to the Command with .env(key, value), in order
invoke_bindings(environment) ==
  << <<DOORSTOP_ENABLE_VAR, environment.doorstop_enable>>,
     <<DOORSTOP_INVOKE_DLL_PATH_VAR, environment.doorstop_invoke_dll>>,
     <<DOORSTOP_CORLIB_OVERRIDE_PATH_VAR, environment.doorstop_corlib_override_path>>,
     <<LD_LIBRARY_PATH_VAR, environment.ld_library_path>>,
     <<LD_PRELOAD_VAR, environment.ld_preload>>,
     <<DYLD_LIBRARY_PATH_VAR, quoted(environment.dyld_library_path)>>,
     <<DYLD_INSERT_LIBRARIES_VAR, environment.dyld_insert_libraries>> >>

\* invoke returns what Command::spawn returns
invoke_result(spawn_ok) == IF spawn_ok THEN "Ok" ELSE "Err"

-----------------------------------------------------------------------------
(* Inputs *)

MaxQuotes == 2

QuoteRun(n) == [i \in 1..n |-> Quote]

\* an environment from a set of <<name, value>> pairs with distinct names
MkEnv(pairs) ==
  [n \in {p[1] : p \in pairs} |-> (CHOOSE p \in pairs : p[1] = n)[2]]

\* o is <<>> (the variable is not set) or <<value>>
Opt(name, o) == IF o = <<>> THEN {} ELSE {<<name, o[1]>>}

Options(values) == {<<>>} \cup {<<v>> : v \in values}

DummyUrl == <<"h", "t", "t", "p", ":", "/", "/", "1", "2", "7", ".", "0", ".", "0", ".", "1", ":", "3", "0", "0", "0", "/", "d", "u", "m", "m", "y", "-", "u", "r", "l">>
TelegramUrl == TELEGRAM_API_BASE \o <<"1", ":", "a", "/", "s", "e", "n", "d", "M", "e", "s", "s", "a", "g", "e">>
DiscordUrl == DISCORD_WEBHOOK_BASE \o <<"/", "1", "/", "t">>

\* values of WEBHOOK_URL that are written with and without surrounding quotes
QuotedCores == {<<>>, DummyUrl, <<"h", "t", "t", "p", ":", "/", "/", "h", "/", "a", "\"", "b">>}

PlainUrls ==
  {<<"L", "O", "C", "A", "L", "H", "O", "S", "T">>, <<"h", "t", "t", "p", ":", "/", "/">>, TelegramUrl, DiscordUrl,
   <<"h", "t", "t", "p", "s", ":", "/", "/", "a", "p", "i", ".", "t", "e", "l", "e", "g", "r", "a", "m", ".", "o", "r", "g", "/", "b", "o">>, <<"h", "t", "t", "p", "s", ":", "/", "/", "d", "i", "s", "c", "o", "r", "d", ".", "c", "o", "m", "/", "a", "p", "i", "/", "w", "e", "b", "h", "o", "o", "k">>}

EventUrlValues ==
  {DummyUrl, TelegramUrl, DiscordUrl, <<"L", "O", "C", "A", "L", "H", "O", "S", "T">>, <<"h", "t", "t", "p", "s", ":", "/", "/", "a", "p", "i", ".", "t", "e", "l", "e", "g", "r", "a", "m", ".", "o", "r", "g", "/", "b", "o">>}

WebhookUrlValues ==
  {QuoteRun(i) \o c \o QuoteRun(j) : c \in QuotedCores, i \in 0..MaxQuotes, j \in 0..MaxQuotes}
    \cup PlainUrls

ChatIdValues == {<<>>, <<"4", "2">>}

MessageValues == {<<>>, <<"h", "i">>}

MainOverrideKeys ==
  {<<"W", "E", "B", "H", "O", "O", "K", "_", "S", "T", "A", "R", "T", "_", "R", "U", "N", "N", "I", "N", "G", "_", "M", "E", "S", "S", "A", "G", "E">>, <<"W", "E", "B", "H", "O", "O", "K", "_", "S", "T", "A", "R", "T", "_", "S", "U", "C", "C", "E", "S", "S", "F", "U", "L", "_", "M", "E", "S", "S", "A", "G", "E">>,
   <<"W", "E", "B", "H", "O", "O", "K", "_", "S", "T", "O", "P", "_", "R", "U", "N", "N", "I", "N", "G", "_", "M", "E", "S", "S", "A", "G", "E">>, <<"W", "E", "B", "H", "O", "O", "K", "_", "S", "T", "O", "P", "_", "S", "U", "C", "C", "E", "S", "S", "F", "U", "L", "_", "M", "E", "S", "S", "A", "G", "E">>}

AllOverrideKeys ==
  MainOverrideKeys \cup
  {<<"W", "E", "B", "H", "O", "O", "K", "_", "S", "T", "A", "R", "T", "_", "F", "A", "I", "L", "E", "D", "_", "M", "E", "S", "S", "A", "G", "E">>, <<"W", "E", "B", "H", "O", "O", "K", "_", "S", "T", "O", "P", "_", "F", "A", "I", "L", "E", "D", "_", "M", "E", "S", "S", "A", "G", "E">>,
   <<"W", "E", "B", "H", "O", "O", "K", "_", "U", "P", "D", "A", "T", "E", "_", "R", "U", "N", "N", "I", "N", "G", "_", "M", "E", "S", "S", "A", "G", "E">>, <<"W", "E", "B", "H", "O", "O", "K", "_", "U", "P", "D", "A", "T", "E", "_", "S", "U", "C", "C", "E", "S", "S", "F", "U", "L", "_", "M", "E", "S", "S", "A", "G", "E">>,
   <<"W", "E", "B", "H", "O", "O", "K", "_", "U", "P", "D", "A", "T", "E", "_", "F", "A", "I", "L", "E", "D", "_", "M", "E", "S", "S", "A", "G", "E">>, <<"W", "E", "B", "H", "O", "O", "K", "_", "B", "R", "O", "A", "D", "C", "A", "S", "T", "_", "M", "E", "S", "S", "A", "G", "E">>}

\* at most one override message is configured
OverridePairs(keys) == {{}} \cup {{<<k, v>>} : k \in keys, v \in MessageValues}

\* what request.send() and the reading of the response body can come to
Outcomes ==
  [ok : {TRUE}, status : {200, 201, 204, 500}, text_ok : {TRUE}]
    \cup {[ok |-> TRUE, status |-> 200, text_ok |-> FALSE],
          [ok |-> FALSE, status |-> 0, text_ok |-> FALSE]}

NoEvent == [kind |-> <<>>, status |-> <<>>]
NoEnvironment == build_environment(<<>>)

NotifyInit(urls, keys) ==
  /\ \E u \in Options(urls), c \in Options(ChatIdValues), o \in OverridePairs(keys) :
       env = MkEnv(Opt(WEBHOOK_URL, u) \cup Opt(TELEGRAM_CHAT_ID, c) \cup o)
  /\ requests = <<>>
  /\ logs = <<>>
  /\ looked = <<>>
  /\ ran = <<>>
  /\ now = 0
  /\ fs = {}
  /\ benv = NoEnvironment
  /\ installed = FALSE
  /\ childEnv = <<>>
  /\ spawned = "None"

-----------------------------------------------------------------------------
(* main: the start and stop flows *)

Init ==
  /\ NotifyInit(WebhookUrlValues, MainOverrideKeys)
  /\ subcommand \in {"start", "stop"}
  /\ event = NoEvent
  /\ pc = "notify_running"

SubcommandKind == [start |-> Start, stop |-> Stop]

\* NotificationEvent::<kind>(status).send_notification() called from main
Notify(ev, outcome, next) ==
  LET r == send_notification(env, ev, now, outcome) IN
  /\ event' = ev
  /\ requests' = requests \o r.requests
  /\ logs' = logs \o r.logs
  /\ looked' = looked \o r.looked
  /\ now' = r.now
  /\ pc' = IF r.panicked THEN "aborted" ELSE next
  /\ UNCHANGED <<env, subcommand, ran, fs, benv, installed, childEnv, spawned>>

NotifyRunning ==
  /\ pc = "notify_running"
  /\ \E outcome \in Outcomes :
       Notify([kind |-> SubcommandKind[subcommand], status |-> Running], outcome, "invoke")

InvokeCommand ==
  /\ pc = "invoke"
  /\ ran' = Append(ran, subcommand)
  /\ pc' = "notify_successful"
  /\ UNCHANGED <<env, subcommand, event, requests, logs, looked, now, fs, benv,
                 installed, childEnv, spawned>>

NotifySuccessful ==
  /\ pc = "notify_successful"
  /\ \E outcome \in Outcomes :
       Notify([kind |-> SubcommandKind[subcommand], status |-> Successful], outcome, "done")

Next == NotifyRunning \/ InvokeCommand \/ NotifySuccessful

Spec == Init /\ [][Next]_vars

-----------------------------------------------------------------------------
(* send_notification on any event of the enum *)

EventInit ==
  /\ NotifyInit(EventUrlValues, AllOverrideKeys)
  /\ subcommand = "none"
  /\ event \in NotificationEvent
  /\ pc = "fired"

Dispatch ==
  /\ pc = "fired"
  /\ \E outcome \in Outcomes : Notify(event, outcome, "returned")

EventNext == Dispatch

EventSpec == EventInit /\ [][EventNext]_vars

-----------------------------------------------------------------------------
(* the launch of the server under BepInEx *)

LaunchOverrides ==
  {<<DOORSTOP_LIB_VAR, <<"l", "i", "b", ":", "x", ".", "s", "o">>>>, <<DOORSTOP_LIBS_VAR, <<"/", "l">>>>,
   <<DOORSTOP_INVOKE_DLL_PATH_VAR, <<"/", "p", ".", "d", "l", "l">>>>,
   <<DOORSTOP_CORLIB_OVERRIDE_PATH_VAR, <<"/", "c">>>>,
   <<LD_PRELOAD_VAR, <<"a", ".", "s", "o", ":">>>>, <<LD_LIBRARY_PATH_VAR, <<"/", "x">>>>,
   <<DYLD_LIBRARY_PATH_VAR, <<"/", "m", ":", "/", "n">>>>, <<DYLD_INSERT_LIBRARIES_VAR, <<"/", "i", ".", "s", "o">>>>}

EmptyOverrides == {{}, {<<LD_PRELOAD_VAR, <<>> >>}, {<<DOORSTOP_LIB_VAR, <<>> >>}}

\* the values the composed environment holds: the paths that may or may not exist
ComposedValues(e) ==
  LET b == build_environment(e)
  IN  {b.doorstop_corlib_override_path, b.dyld_insert_libraries, b.dyld_library_path,
       b.doorstop_invoke_dll, b.ld_preload, b.ld_library_path}

LaunchInit ==
  /\ \E set \in SUBSET LaunchOverrides, empty \in EmptyOverrides :
       /\ \A p \in empty : \A q \in set : q[1] # p[1]
       /\ env = MkEnv(set \cup empty)
  /\ fs \in SUBSET ComposedValues(env)
  /\ pc = "launch"
  /\ subcommand = "start"
  /\ event = NoEvent
  /\ requests = <<>>
  /\ logs = <<>>
  /\ looked = <<>>
  /\ ran = <<>>
  /\ now = 0
  /\ benv = NoEnvironment
  /\ installed = FALSE
  /\ childEnv = <<>>
  /\ spawned = "None"

LaunchUnchanged == UNCHANGED <<env, subcommand, event, requests, logs, looked, ran, now, fs>>

CheckInstalled ==
  /\ pc = "launch"
  /\ installed' = is_bepinex_installed(env, fs)
  /\ pc' = "checked"
  /\ UNCHANGED <<benv, childEnv, spawned>>
  /\ LaunchUnchanged

SkipInjection ==
  /\ pc = "checked"
  /\ ~installed
  /\ pc' = "plain"
  /\ UNCHANGED <<benv, installed, childEnv, spawned>>
  /\ LaunchUnchanged

Compose ==
  /\ pc = "checked"
  /\ installed
  /\ benv' = build_environment(env)
  /\ pc' = "composed"
  /\ UNCHANGED <<installed, childEnv, spawned>>
  /\ LaunchUnchanged

Invoke ==
  /\ pc = "composed"
  /\ \E spawn_ok \in BOOLEAN :
       /\ childEnv' = childEnv \o invoke_bindings(benv)
       /\ spawned' = invoke_result(spawn_ok)
  /\ pc' = "invoked"
  /\ UNCHANGED <<benv, installed>>
  /\ LaunchUnchanged

LaunchNext == CheckInstalled \/ SkipInjection \/ Compose \/ Invoke

LaunchSpec == LaunchInit /\ [][LaunchNext]_vars

-----------------------------------------------------------------------------
(* Properties of the notification dispatcher *)

RawWebhookUrl == IF EnvIsSet(env, WEBHOOK_URL) THEN env[WEBHOOK_URL] ELSE <<>>

\* C1: a POST is only issued when WEBHOOK_URL, with its quotes trimmed, is not empty
\* and parses as a URL; an unset variable, an empty value and "LOCALHOST" never lead
\* to a request, "http://127.0.0.1:3000/dummy-url" leads to one.
C1_NoRequestUnlessEnabled ==
  /\ requests # <<>> =>
       /\ EnvIsSet(env, WEBHOOK_URL)
       /\ fetch_webhook_url(env) # <<>>
       /\ url_parse_is_ok(fetch_webhook_url(env))
  /\ RawWebhookUrl \in {<<>>, <<"L", "O", "C", "A", "L", "H", "O", "S", "T">>} => requests = <<>>
  /\ (RawWebhookUrl = <<"h", "t", "t", "p", ":", "/", "/", "1", "2", "7", ".", "0", ".", "0", ".", "1", ":", "3", "0", "0", "0", "/", "d", "u", "m", "m", "y", "-", "u", "r", "l">> /\ pc # "notify_running")
       => requests # <<>>

C1_Witness ==
  /\ EnvIsSet(env, WEBHOOK_URL)
  /\ env[WEBHOOK_URL] = <<"L", "O", "C", "A", "L", "H", "O", "S", "T">>
  /\ pc = "done"
  /\ requests = <<>>

\* C2: a step of main that sends a webhook request never aborts the process, whatever
\* the outcome of the request is.
C2_DeliveryNeverAborts ==
  [][Len(requests') > Len(requests) => pc' # "aborted"]_vars

\* v with at most one quote taken from its start and at most one from its end
SingleTrims(v) ==
  {SubSeq(v, 1 + a, Len(v) - b) : a \in {0} \cup {x \in {1} : v # <<>> /\ Head(v) = Quote},
                                  b \in {0} \cup {x \in {1} : v # <<>> /\ v[Len(v)] = Quote}}

\* C3 as stated: the URL a request is sent to is the configured value with at most one
\* quote removed from its start and at most one from its end.
C3_SingleQuoteTrimmed ==
  \A i \in DOMAIN requests :
    /\ requests[i].url \in SingleTrims(RawWebhookUrl)
    /\ Len(RawWebhookUrl) - Len(requests[i].url) <= 2

\* C3 amended: the URL a request is sent to is the configured value without the whole
\* run of quotes at its start and the whole run of quotes at its end; what lies between
\* the two runs is kept, quotes included.
C3_AllQuotesTrimmed ==
  \A i \in DOMAIN requests :
    LET v == RawWebhookUrl
        u == requests[i].url
    IN  /\ u # <<>>
        /\ Head(u) # Quote
        /\ u[Len(u)] # Quote
        /\ \E a \in 0..Len(v), b \in 0..Len(v) :
             /\ v = QuoteRun(a) \o u \o QuoteRun(b)

C3_Witness ==
  /\ requests # <<>>
  /\ RawWebhookUrl = QuoteRun(2) \o <<"h", "t", "t", "p", ":", "/", "/", "h", "/", "a", "\"", "b">> \o QuoteRun(2)
  /\ requests[1].url = <<"h", "t", "t", "p", ":", "/", "/", "h", "/", "a", "\"", "b">>

IsBroadcast(ev) == to_lowercase(ev.kind) = <<"b", "r", "o", "a", "d", "c", "a", "s", "t">>

ExpectedKey(ev) ==
  IF IsBroadcast(ev) THEN <<"W", "E", "B", "H", "O", "O", "K", "_", "B", "R", "O", "A", "D", "C", "A", "S", "T", "_", "M", "E", "S", "S", "A", "G", "E">>
  ELSE <<"W", "E", "B", "H", "O", "O", "K", "_">> \o to_uppercase(ev.kind) \o <<"_">> \o to_uppercase(ev.status) \o <<"_", "M", "E", "S", "S", "A", "G", "E">>

\* C4: the override key looked up for an event is WEBHOOK_BROADCAST_MESSAGE for a
\* broadcast, whatever its status, and WEBHOOK_{KIND}_{STATUS}_MESSAGE otherwise
\* (WEBHOOK_STOP_RUNNING_MESSAGE for Stop/Running); no other event than a broadcast
\* shares its key with a different event.
C4_OverrideKey ==
  looked # <<>> =>
    /\ Len(looked) = 1
    /\ looked[1] = ExpectedKey(event)
    /\ (event = [kind |-> <<"S", "t", "o", "p">>, status |-> <<"R", "u", "n", "n", "i", "n", "g">>])
         => looked[1] = <<"W", "E", "B", "H", "O", "O", "K", "_", "S", "T", "O", "P", "_", "R", "U", "N", "N", "I", "N", "G", "_", "M", "E", "S", "S", "A", "G", "E">>
    /\ ~IsBroadcast(event) =>
         \A other \in NotificationEvent :
           (other # event) => parse_webhook_env_var(to_event_type(other)) # looked[1]

C4_Witness ==
  /\ looked # <<>>
  /\ event = [kind |-> <<"S", "t", "o", "p">>, status |-> <<"R", "u", "n", "n", "i", "n", "g">>]
  /\ looked[1] = <<"W", "E", "B", "H", "O", "O", "K", "_", "S", "T", "O", "P", "_", "R", "U", "N", "N", "I", "N", "G", "_", "M", "E", "S", "S", "A", "G", "E">>

\* the NotificationMessage a request body was built from, and its event_message
BodyEventType(body) ==
  IF body.shape = "Generic" THEN body.notification.event_type
  ELSE IF body.shape = "Discord" THEN body.from.event_type
  ELSE [name |-> SubSeq(body.text, 1, IndexOfAny(body.text, {":"}, 1) - 1)]

BodyMessage(body) ==
  IF body.shape = "Generic" THEN body.notification.event_message
  ELSE IF body.shape = "Discord" THEN body.from.event_message
  ELSE SubSeq(body.text, IndexOfAny(body.text, {":"}, 1) + 2, Len(body.text))

\* C5: the event_message sent is the value configured under the event's override key
\* when there is one, and "Server Status: " with the title-cased event otherwise; the
\* event type and the timestamp are those of the event, override or not.
C5_OverrideMessage ==
  \A i \in DOMAIN requests :
    LET body == requests[i].body
        key  == ExpectedKey(event)
    IN  /\ BodyMessage(body) =
             IF EnvIsSet(env, key) THEN env[key]
             ELSE <<"S", "e", "r", "v", "e", "r", " ", "S", "t", "a", "t", "u", "s", ":", " ">> \o event.kind
                    \o (IF IsBroadcast(event) THEN <<>> ELSE <<" ">> \o event.status)
        /\ (event = [kind |-> <<"S", "t", "o", "p">>, status |-> <<"S", "u", "c", "c", "e", "s", "s", "f", "u", "l">>] /\ ~EnvIsSet(env, key))
             => BodyMessage(body) = <<"S", "e", "r", "v", "e", "r", " ", "S", "t", "a", "t", "u", "s", ":", " ", "S", "t", "o", "p", " ", "S", "u", "c", "c", "e", "s", "s", "f", "u", "l">>
        /\ BodyEventType(body).name = event.kind
        /\ body.shape = "Generic" =>
             /\ body.notification.event_type = [name |-> event.kind, status |-> event.status]
             /\ body.notification.timestamp = now - 1
        /\ body.shape = "Discord" =>
             /\ body.from.event_type = [name |-> event.kind, status |-> event.status]
             /\ body.from.timestamp = now - 1

C5_Witness ==
  /\ requests # <<>>
  /\ event = [kind |-> <<"S", "t", "o", "p">>, status |-> <<"S", "u", "c", "c", "e", "s", "s", "f", "u", "l">>]
  /\ EnvIsSet(env, <<"W", "E", "B", "H", "O", "O", "K", "_", "S", "T", "O", "P", "_", "S", "U", "C", "C", "E", "S", "S", "F", "U", "L", "_", "M", "E", "S", "S", "A", "G", "E">>)
  /\ env[<<"W", "E", "B", "H", "O", "O", "K", "_", "S", "T", "O", "P", "_", "S", "U", "C", "C", "E", "S", "S", "F", "U", "L", "_", "M", "E", "S", "S", "A", "G", "E">>] = <<>>
  /\ requests[1].body.shape = "Generic"
  /\ requests[1].body.notification.event_message = <<>>

\* C6: the body of a request has the Discord shape when the URL starts with the Discord
\* webhook base, otherwise the Telegram shape when the URL starts with
\* "https://api.telegram.org/bot", and otherwise it is the NotificationMessage itself.
C6_ProviderByPrefix ==
  \A i \in DOMAIN requests :
    LET url  == requests[i].url
        body == requests[i].body
        discord  == starts_with(url, <<"h", "t", "t", "p", "s", ":", "/", "/", "d", "i", "s", "c", "o", "r", "d", ".", "c", "o", "m", "/", "a", "p", "i", "/", "w", "e", "b", "h", "o", "o", "k", "s">>)
        telegram == starts_with(url, <<"h", "t", "t", "p", "s", ":", "/", "/", "a", "p", "i", ".", "t", "e", "l", "e", "g", "r", "a", "m", ".", "o", "r", "g", "/", "b", "o", "t">>)
    IN  /\ body.shape \in {"Discord", "Telegram", "Generic"}
        /\ body.shape = "Discord" <=> discord
        /\ body.shape = "Telegram" <=> (~discord /\ telegram)
        /\ body.shape = "Generic" <=> (~discord /\ ~telegram)
        /\ body.shape = "Generic" => DOMAIN body = {"shape", "notification"}
        /\ body.shape = "Telegram" => DOMAIN body = {"shape", "chat_id", "text"}
        /\ body.shape = "Discord" => DOMAIN body = {"shape", "from"}

C6_Witness ==
  /\ requests # <<>>
  /\ requests[1].url = <<"h", "t", "t", "p", "s", ":", "/", "/", "a", "p", "i", ".", "t", "e", "l", "e", "g", "r", "a", "m", ".", "o", "r", "g", "/", "b", "o">>
  /\ requests[1].body.shape = "Generic"

IsTelegramUrl(url) ==
  /\ starts_with(url, <<"h", "t", "t", "p", "s", ":", "/", "/", "a", "p", "i", ".", "t", "e", "l", "e", "g", "r", "a", "m", ".", "o", "r", "g", "/", "b", "o", "t">>)
  /\ ~starts_with(url, <<"h", "t", "t", "p", "s", ":", "/", "/", "d", "i", "s", "c", "o", "r", "d", ".", "c", "o", "m", "/", "a", "p", "i", "/", "w", "e", "b", "h", "o", "o", "k", "s">>)

\* C7: with a Telegram URL and no TELEGRAM_CHAT_ID the dispatch aborts before any request
\* is sent; with any other URL a missing TELEGRAM_CHAT_ID does not keep the request from
\* being sent; with TELEGRAM_CHAT_ID set the Telegram body carries it as chat_id and
\* "{event-type name}: {event message}" as text.
C7_TelegramChatId ==
  LET url == fetch_webhook_url(env)
      key == ExpectedKey(event)
      message == IF EnvIsSet(env, key) THEN env[key]
                 ELSE <<"S", "e", "r", "v", "e", "r", " ", "S", "t", "a", "t", "u", "s", ":", " ">> \o event_to_string(event)
  IN  pc # "fired" =>
        /\ (IsTelegramUrl(url) /\ ~EnvIsSet(env, <<"T", "E", "L", "E", "G", "R", "A", "M", "_", "C", "H", "A", "T", "_", "I", "D">>))
             => (pc = "aborted" /\ requests = <<>>)
        /\ (is_webhook_enabled(env) /\ ~IsTelegramUrl(url)) => Len(requests) = 1
        /\ (IsTelegramUrl(url) /\ EnvIsSet(env, <<"T", "E", "L", "E", "G", "R", "A", "M", "_", "C", "H", "A", "T", "_", "I", "D">>)) =>
             /\ Len(requests) = 1
             /\ requests[1].body.chat_id = env[<<"T", "E", "L", "E", "G", "R", "A", "M", "_", "C", "H", "A", "T", "_", "I", "D">>]
             /\ requests[1].body.text = event.kind \o <<":", " ">> \o message

C7_Witness ==
  /\ pc = "aborted"
  /\ requests = <<>>
  /\ IsTelegramUrl(fetch_webhook_url(env))
  /\ ~EnvIsSet(env, <<"T", "E", "L", "E", "G", "R", "A", "M", "_", "C", "H", "A", "T", "_", "I", "D">>)

-----------------------------------------------------------------------------
(* Properties of the launch environment *)

Override(name) == IF EnvIsSet(env, name) /\ env[name] # <<>> THEN <<env[name]>> ELSE <<>>

\* C8: the composed LD_PRELOAD is the LD_PRELOAD override, or the empty string, directly
\* followed by the DOORSTOP_LIB override or else "libdoorstop_x64.so".
C8_PreloadConcatenation ==
  pc \in {"composed", "invoked"} =>
    LET base == IF Override(<<"L", "D", "_", "P", "R", "E", "L", "O", "A", "D">>) = <<>> THEN <<>> ELSE env[<<"L", "D", "_", "P", "R", "E", "L", "O", "A", "D">>]
        lib  == IF Override(<<"D", "O", "O", "R", "S", "T", "O", "P", "_", "L", "I", "B">>) = <<>> THEN <<"l", "i", "b", "d", "o", "o", "r", "s", "t", "o", "p", "_", "x", "6", "4", ".", "s", "o">>
                ELSE env[<<"D", "O", "O", "R", "S", "T", "O", "P", "_", "L", "I", "B">>]
    IN  /\ benv.ld_preload = base \o lib
        /\ (Override(<<"L", "D", "_", "P", "R", "E", "L", "O", "A", "D">>) = <<>> /\ Override(<<"D", "O", "O", "R", "S", "T", "O", "P", "_", "L", "I", "B">>) = <<>>)
             => benv.ld_preload = <<"l", "i", "b", "d", "o", "o", "r", "s", "t", "o", "p", "_", "x", "6", "4", ".", "s", "o">>

C8_Witness ==
  /\ pc = "composed"
  /\ Override(<<"L", "D", "_", "P", "R", "E", "L", "O", "A", "D">>) = <<<<"a", ".", "s", "o", ":">>>>
  /\ benv.ld_preload = <<"a", ".", "s", "o", ":", "l", "i", "b", "d", "o", "o", "r", "s", "t", "o", "p", "_", "x", "6", "4", ".", "s", "o">>

SevenBindings ==
  << <<<<"D", "O", "O", "R", "S", "T", "O", "P", "_", "E", "N", "A", "B", "L", "E">>, benv.doorstop_enable>>,
     <<<<"D", "O", "O", "R", "S", "T", "O", "P", "_", "I", "N", "V", "O", "K", "E", "_", "D", "L", "L", "_", "P", "A", "T", "H">>, benv.doorstop_invoke_dll>>,
     <<<<"D", "O", "O", "R", "S", "T", "O", "P", "_", "C", "O", "R", "L", "I", "B", "_", "O", "V", "E", "R", "R", "I", "D", "E", "_", "P", "A", "T", "H">>, benv.doorstop_corlib_override_path>>,
     <<<<"L", "D", "_", "L", "I", "B", "R", "A", "R", "Y", "_", "P", "A", "T", "H">>, benv.ld_library_path>>,
     <<<<"L", "D", "_", "P", "R", "E", "L", "O", "A", "D">>, benv.ld_preload>>,
     <<<<"D", "Y", "L", "D", "_", "L", "I", "B", "R", "A", "R", "Y", "_", "P", "A", "T", "H">>, benv.dyld_library_path>>,
     <<<<"D", "Y", "L", "D", "_", "I", "N", "S", "E", "R", "T", "_", "L", "I", "B", "R", "A", "R", "I", "E", "S">>, benv.dyld_insert_libraries>> >>

\* C9: invoke applies seven bindings, one for each of the seven names, each with the value
\* of the composed environment; DYLD_LIBRARY_PATH alone is wrapped in double quotes; a
\* failed spawn is returned as an error.
C9_SevenBindings ==
  pc = "invoked" =>
    /\ Len(childEnv) = 7
    /\ {childEnv[i][1] : i \in DOMAIN childEnv} = {SevenBindings[i][1] : i \in 1..7}
    /\ \A i \in DOMAIN childEnv : \E j \in 1..7 :
         /\ childEnv[i][1] = SevenBindings[j][1]
         /\ childEnv[i][2] =
              IF childEnv[i][1] = <<"D", "Y", "L", "D", "_", "L", "I", "B", "R", "A", "R", "Y", "_", "P", "A", "T", "H">>
                THEN <<"\"">> \o SevenBindings[j][2] \o <<"\"">>
                ELSE SevenBindings[j][2]
    /\ spawned \in {"Ok", "Err"}

C9_Witness ==
  /\ pc = "invoked"
  /\ spawned = "Err"
  /\ Len(childEnv) = 7

RequiredPaths ==
  LET b == build_environment(env)
  IN  {b.doorstop_corlib_override_path, b.dyld_insert_libraries, b.dyld_library_path,
       b.doorstop_invoke_dll}

\* C10: is_bepinex_installed is true exactly when the runtime-override path, the mac
\* preload list, the mac library search path and the entry DLL path all exist; the
\* result is a boolean also when one is absent.
C10_InstalledIffAllFour ==
  pc # "launch" =>
    /\ installed \in BOOLEAN
    /\ installed <=> (RequiredPaths \subseteq fs)

C10_Witness ==
  /\ pc = "checked"
  /\ ~installed
  /\ Cardinality(RequiredPaths \ fs) = 1
  /\ build_environment(env).dyld_insert_libraries \notin fs
  /\ build_environment(env).ld_preload \in fs

====
